---- MODULE Spec2Model ----
(***************************************************************************)
(* The pending-action pool (actpool) of iotex-core: the pool orchestrator  *)
(* of actpool.go, the per-sender account queue it drives, and the          *)
(* chain-state facade (confirmed nonce, balance) it reads.                 *)
(***************************************************************************)
EXTENDS Integers, Sequences, FiniteSets, TLC

VARIABLES
    accountActs,     \* actPool.accountActs : sender -> ActQueue (a Go map)
    allActions,      \* actPool.allActions  : the keys (hashes) of the Go map
    confirmedNonce,  \* chain facade: bc.Nonce(addr) when it succeeds
    last,            \* the last public operation and its result
    admitted,        \* the hashes admitted so far (kept when setup.hist)
    returned,        \* what the last query returned (kept when setup.queries)
    setup,           \* actPool.cfg, what the environment submits, what is recorded
    mutex,           \* actPool.mutex : the writer and the readers holding it
    calls,           \* per goroutine: the pool operation it is in and how far
    serial,          \* the pool had every operation run alone, in lock order
    start,           \* a *StartSubChain being serialized and converted
    actPb            \* the *iproto.ActionPb made of it

lockVars == <<mutex, calls, serial>>
codecVars == <<start, actPb>>
vars == <<accountActs, allActions, confirmedNonce, last, admitted, returned, setup,
          mutex, calls, serial, start, actPb>>

\* ------------------------------------------------------------------ bounds
Senders == {"A", "B"}
MaxNonce == 3
MaxConfirmed == 1
MaxBalance == 2
MaxNumActsPerPool == 2
MaxNumActsPerAcct == 2
\* The larger configuration and balances of SpecWide.
WidePool == 3
WideAcct == 3
WideBalance == 3
MaxPick == 2
\* The integer fields and the deposits of the StartSubChain actions of SpecCodec.
MaxField == 1
MaxDeposit == 1

Nonces == 1..MaxNonce

\* actPool.cfg, fixed at construction.
cfg == setup.cfg
Config(pool, acct, pick) ==
    [MaxNumActsPerPool |-> pool, MaxNumActsPerAcct |-> acct, MaxNumActsToPick |-> pick]

\* The balances the chain can report.
Balances == 0..setup.maxBalance
EmptyAddress == ""

\* ------------------------------------------------------------ action model
\* An action is a record: kind, sender (SrcAddr / Sender / Voter / Executor),
\* nonce, cost (the value of Cost()), votee (votes only) and the set of
\* defects the validation of actpool.go tests for.
Other(s) == CHOOSE t \in Senders : t # s

MkAct(k, s, n, c, v, f) ==
    [kind |-> k, sender |-> s, nonce |-> n, cost |-> c, votee |-> v, flaws |-> f]

Transfer(s, n, c) == MkAct("transfer", s, n, c, EmptyAddress, {})
Vote(s, n, v) == MkAct("vote", s, n, 1, v, {})
Execution(s, n) == MkAct("execution", s, n, 1, EmptyAddress, {})
StartSubChain(s, n) == MkAct("other", s, n, 1, EmptyAddress, {})

\* The actions submitted under Spec: every entry point, two costs, gaps, a
\* second sender.
MainActs ==
    {Transfer("A", n, 1) : n \in Nonces}
    \cup {Transfer("A", 1, 2), Vote("A", 1, "B"), Execution("A", 2), StartSubChain("A", 1)}
    \cup {Transfer("B", 1, 1)}

\* Actions with one defect each, for the checks of the validation pipeline.
FlawedActs ==
    {MkAct("transfer", "A", 1, 2, EmptyAddress, {"coinbase"}),
     MkAct("transfer", "A", 2, 2, EmptyAddress, {"badSig"}),
     MkAct("vote", "A", 1, 1, "B", {"gasHigh"}),
     MkAct("execution", "A", 2, 1, EmptyAddress, {"badSender"})}

\* The actions submitted under SpecTrace and under SpecHist.
TraceActs ==
    {Transfer("A", 1, 1), Transfer("A", 1, 2), Transfer("A", 2, 1),
     Vote("A", 1, "B"), Execution("A", 2), StartSubChain("A", 1)}
    \cup FlawedActs

HistActs == {Transfer("A", 1, 1), Vote("A", 1, "B"), Execution("A", 2)}

\* The actions submitted under SpecWide: three consecutive nonces of one
\* sender, a second variant at one of them, and a second sender.
WideActs ==
    {Transfer("A", n, 1) : n \in 1..3}
    \cup {Vote("A", 2, EmptyAddress), Execution("B", 1)}

Universe == MainActs \cup FlawedActs \cup WideActs

\* setup.offered names the set of actions the environment submits.
Offered(name) ==
    CASE name = "main" -> MainActs
      [] name = "trace" -> TraceActs
      [] name = "hist" -> HistActs
      [] name = "wide" -> WideActs

\* Hash is blake2b-256 of the canonical byte stream; the stream lists the
\* fields of the action, so distinct actions of the universe have distinct
\* hashes.
Hash(a) == <<a.kind, a.nonce, a.sender, a.cost, a.votee, a.flaws>>

Hashes(acts) == {Hash(a) : a \in acts}

\* ------------------------------------------------------ chain-state facade
\* The facade as one pool operation sees it, a record bc:
\*   bc.fail     the calls <<addr, call>> that return an error,
\*   bc.balance  the result of bc.Balance(addr) when it succeeds,
\*   bc.cands    the addresses whose state has IsCandidate set,
\*   bc.n0       the nonce a queue made by NewActQueue starts with.
\* bc.Nonce(addr), when it succeeds, is confirmedNonce[addr].
NonceFails(bc, addr) == <<addr, "Nonce">> \in bc.fail
BalanceFails(bc, addr) == <<addr, "Balance">> \in bc.fail
StateFails(bc, addr) == <<addr, "State">> \in bc.fail

NewQueueNonces == {1}
Facade(fail, bal, cands, n0) == [fail |-> fail, balance |-> bal, cands |-> cands, n0 |-> n0]

\* actNonce - queue.StartNonce() >= limit on uint64: the subtraction wraps
\* to 2^64 - (b - a) when a < b, which is above every configured limit.
\* The comparison with > in place of >=.
U64SubGt(a, b, limit) == IF a >= b THEN a - b > limit ELSE TRUE

U64SubGeq(a, b, limit) == IF a >= b THEN a - b >= limit ELSE TRUE

\* ------------------------------------------------------------ account queue
NewActQueue(n0) ==
    [items |-> {}, startNonce |-> n0, pendingNonce |-> n0,
     pendingBalance |-> 0, givenBalance |-> 0]

HasNonce(q, n) == \E a \in q.items : a.nonce = n

Overlaps(q, act) == HasNonce(q, act.nonce)

Put(q, act) ==
    IF HasNonce(q, act.nonce)
    THEN [q |-> q, err |-> "ErrNonce:duplicate"]
    ELSE IF U64SubGeq(act.nonce, q.startNonce, cfg.MaxNumActsPerAcct)
    THEN [q |-> q, err |-> "ErrNonce:out of range"]
    ELSE [q |-> [q EXCEPT !.items = @ \cup {act}], err |-> "nil"]

Empty(q) == q.items = {}

\* The items with a nonce in [n, stop), in ascending nonce order.
RECURSIVE ActsBetween(_, _, _)
ActsBetween(items, n, stop) ==
    IF n >= stop THEN <<>>
    ELSE (IF \E a \in items : a.nonce = n
          THEN <<CHOOSE a \in items : a.nonce = n>>
          ELSE <<>>) \o ActsBetween(items, n + 1, stop)

PendingActs(q) == ActsBetween(q.items, q.startNonce, q.pendingNonce)

SetStartNonce(q, n) == [q EXCEPT !.startNonce = n]
SetPendingNonce(q, n) == [q EXCEPT !.pendingNonce = n]
\* givenBalance remembers the balance the queue was last given.
SetPendingBalance(q, b) == [q EXCEPT !.pendingBalance = b, !.givenBalance = b]

FilterNonce(q, threshold) ==
    [q |-> [q EXCEPT !.items = {a \in @ : a.nonce >= threshold}],
     removed |-> {a \in q.items : a.nonce < threshold}]

\* Advance that adds the cost of an item to the balance.
RECURSIVE AdvanceRefunds(_, _, _)
AdvanceRefunds(items, n, bal) ==
    IF \E a \in items : a.nonce = n /\ a.cost <= bal
    THEN AdvanceRefunds(items, n + 1, bal + (CHOOSE a \in items : a.nonce = n).cost)
    ELSE [nonce |-> n, bal |-> bal]

RECURSIVE Advance(_, _, _)
Advance(items, n, bal) ==
    IF \E a \in items : a.nonce = n /\ a.cost <= bal
    THEN Advance(items, n + 1, bal - (CHOOSE a \in items : a.nonce = n).cost)
    ELSE [nonce |-> n, bal |-> bal]

UpdateQueue(q, fromNonce) ==
    LET stop == Advance(q.items, fromNonce, q.pendingBalance)
    IN  [q |-> [q EXCEPT !.pendingNonce = stop.nonce,
                         !.pendingBalance = stop.bal,
                         !.items = {a \in @ : a.nonce < stop.nonce}],
         removed |-> {a \in q.items : a.nonce >= stop.nonce}]

\* ------------------------------------------------------- pool: private part
WithQueue(accts, sender, q) ==
    [s \in (DOMAIN accts) \cup {sender} |-> IF s = sender THEN q ELSE accts[s]]

WithoutQueue(accts, sender) ==
    [s \in (DOMAIN accts) \ {sender} |-> accts[s]]

removeInvalidActs(all, acts) == all \ Hashes(acts)

\* updateAccount that forgets to take the removed actions out of allActions.
updateAccountKeepsHashes(accts, all, sender) ==
    LET queue == accts[sender]
        upd == UpdateQueue(queue, queue.pendingNonce)
    IN  [accts |-> IF Empty(upd.q) THEN WithoutQueue(accts, sender)
                   ELSE WithQueue(accts, sender, upd.q),
         all |-> all]

updateAccount(accts, all, sender) ==
    LET queue == accts[sender]
        upd == UpdateQueue(queue, queue.pendingNonce)
    IN  [accts |-> IF Empty(upd.q) THEN WithoutQueue(accts, sender)
                   ELSE WithQueue(accts, sender, upd.q),
         all |-> removeInvalidActs(all, upd.removed)]

\* enqueueAction without the Overlaps test.
enqueueActionNoOverlapTest(accts, all, bc, sender, act, hash, actNonce) ==
    LET isNew == sender \notin DOMAIN accts
        q0 == IF isNew THEN NewActQueue(bc.n0) ELSE accts[sender]
        nonceErr == isNew /\ NonceFails(bc, sender)
        pendingNonce == confirmedNonce[sender] + 1
        q1 == IF isNew /\ ~nonceErr
              THEN SetStartNonce(SetPendingNonce(q0, pendingNonce), pendingNonce)
              ELSE q0
        balErr == isNew /\ ~nonceErr /\ BalanceFails(bc, sender)
        queue == IF isNew /\ ~nonceErr /\ ~balErr
                 THEN SetPendingBalance(q1, bc.balance[sender])
                 ELSE q1
        put == Put(queue, act)
        Out(q, e) == [accts |-> WithQueue(accts, sender, q), all |-> all, err |-> e]
    IN  IF nonceErr THEN Out(q0, "ErrChainState:enqueue nonce")
        ELSE IF balErr THEN Out(q1, "ErrChainState:enqueue balance")
        ELSE IF U64SubGeq(actNonce, queue.startNonce, cfg.MaxNumActsPerAcct)
             THEN Out(queue, "ErrNonce:too large")
        ELSE IF act.kind \in {"transfer", "vote", "execution"}
                /\ queue.pendingBalance < act.cost
             THEN Out(queue, "ErrBalance:insufficient")
        ELSE IF put.err # "nil" THEN Out(queue, "ErrPut")
        ELSE LET accts1 == WithQueue(accts, sender, put.q)
                 all1 == all \cup {hash}
                 upd == updateAccount(accts1, all1, sender)
             IN  IF actNonce = put.q.pendingNonce
                 THEN [accts |-> upd.accts, all |-> upd.all, err |-> "nil"]
                 ELSE [accts |-> accts1, all |-> all1, err |-> "nil"]

\* enqueueAction without the balance test of the type switch.
enqueueActionNoBalanceTest(accts, all, bc, sender, act, hash, actNonce) ==
    LET isNew == sender \notin DOMAIN accts
        q0 == IF isNew THEN NewActQueue(bc.n0) ELSE accts[sender]
        nonceErr == isNew /\ NonceFails(bc, sender)
        pendingNonce == confirmedNonce[sender] + 1
        q1 == IF isNew /\ ~nonceErr
              THEN SetStartNonce(SetPendingNonce(q0, pendingNonce), pendingNonce)
              ELSE q0
        balErr == isNew /\ ~nonceErr /\ BalanceFails(bc, sender)
        queue == IF isNew /\ ~nonceErr /\ ~balErr
                 THEN SetPendingBalance(q1, bc.balance[sender])
                 ELSE q1
        put == Put(queue, act)
        Out(q, e) == [accts |-> WithQueue(accts, sender, q), all |-> all, err |-> e]
    IN  IF nonceErr THEN Out(q0, "ErrChainState:enqueue nonce")
        ELSE IF balErr THEN Out(q1, "ErrChainState:enqueue balance")
        ELSE IF Overlaps(queue, act) THEN Out(queue, "ErrNonce:duplicate nonce")
        ELSE IF U64SubGeq(actNonce, queue.startNonce, cfg.MaxNumActsPerAcct)
             THEN Out(queue, "ErrNonce:too large")
        ELSE IF put.err # "nil" THEN Out(queue, "ErrPut")
        ELSE LET accts1 == WithQueue(accts, sender, put.q)
                 all1 == all \cup {hash}
                 upd == updateAccount(accts1, all1, sender)
             IN  IF actNonce = put.q.pendingNonce
                 THEN [accts |-> upd.accts, all |-> upd.all, err |-> "nil"]
                 ELSE [accts |-> accts1, all |-> all1, err |-> "nil"]

enqueueAction(accts, all, bc, sender, act, hash, actNonce) ==
    LET isNew == sender \notin DOMAIN accts
        q0 == IF isNew THEN NewActQueue(bc.n0) ELSE accts[sender]
        nonceErr == isNew /\ NonceFails(bc, sender)
        pendingNonce == confirmedNonce[sender] + 1
        q1 == IF isNew /\ ~nonceErr
              THEN SetStartNonce(SetPendingNonce(q0, pendingNonce), pendingNonce)
              ELSE q0
        balErr == isNew /\ ~nonceErr /\ BalanceFails(bc, sender)
        queue == IF isNew /\ ~nonceErr /\ ~balErr
                 THEN SetPendingBalance(q1, bc.balance[sender])
                 ELSE q1
        put == Put(queue, act)
        Out(q, e) == [accts |-> WithQueue(accts, sender, q), all |-> all, err |-> e]
    IN  IF nonceErr THEN Out(q0, "ErrChainState:enqueue nonce")
        ELSE IF balErr THEN Out(q1, "ErrChainState:enqueue balance")
        ELSE IF Overlaps(queue, act) THEN Out(queue, "ErrNonce:duplicate nonce")
        ELSE IF U64SubGeq(actNonce, queue.startNonce, cfg.MaxNumActsPerAcct)
             THEN Out(queue, "ErrNonce:too large")
        ELSE IF act.kind \in {"transfer", "vote", "execution"}
                /\ queue.pendingBalance < act.cost
             THEN Out(queue, "ErrBalance:insufficient")
        ELSE IF put.err # "nil" THEN Out(queue, "ErrPut")
        ELSE LET accts1 == WithQueue(accts, sender, put.q)
                 all1 == all \cup {hash}
                 upd == updateAccount(accts1, all1, sender)
             IN  IF actNonce = put.q.pendingNonce
                 THEN [accts |-> upd.accts, all |-> upd.all, err |-> "nil"]
                 ELSE [accts |-> accts1, all |-> all1, err |-> "nil"]

\* The orders in which a Go range may visit the keys of a map.
Orders(S) == {o \in [1..Cardinality(S) -> S] : \A s \in S : \E i \in DOMAIN o : o[i] = s}

\* removeConfirmedActs that filters below the confirmed nonce instead of
\* below the pending nonce.
RECURSIVE removeConfirmedFromOffByOne(_, _, _, _, _)
removeConfirmedFromOffByOne(accts, all, bc, order, i) ==
    IF i > Len(order) THEN [accts |-> accts, all |-> all]
    ELSE LET from == order[i]
             flt == FilterNonce(accts[from], confirmedNonce[from])
             all1 == removeInvalidActs(all, flt.removed)
             accts1 == IF Empty(flt.q) THEN WithoutQueue(accts, from)
                       ELSE WithQueue(accts, from, flt.q)
         IN  IF NonceFails(bc, from) THEN [accts |-> accts, all |-> all]
             ELSE removeConfirmedFromOffByOne(accts1, all1, bc, order, i + 1)

RECURSIVE removeConfirmedFrom(_, _, _, _, _)
removeConfirmedFrom(accts, all, bc, order, i) ==
    IF i > Len(order) THEN [accts |-> accts, all |-> all]
    ELSE LET from == order[i]
             flt == FilterNonce(accts[from], confirmedNonce[from] + 1)
             all1 == removeInvalidActs(all, flt.removed)
             accts1 == IF Empty(flt.q) THEN WithoutQueue(accts, from)
                       ELSE WithQueue(accts, from, flt.q)
         IN  IF NonceFails(bc, from) THEN [accts |-> accts, all |-> all]
             ELSE removeConfirmedFrom(accts1, all1, bc, order, i + 1)

removeConfirmedActs(accts, all, bc, order) ==
    removeConfirmedFrom(accts, all, bc, order, 1)

\* The Reset loop without the refresh of the pending balance.
RECURSIVE ResetFromKeepsBalance(_, _, _, _, _)
ResetFromKeepsBalance(accts, all, bc, order, i) ==
    IF i > Len(order) THEN [accts |-> accts, all |-> all, err |-> "nil"]
    ELSE LET from == order[i]
             q1 == accts[from]
             pendingNonce == confirmedNonce[from] + 1
             q2 == SetPendingNonce(SetStartNonce(q1, pendingNonce), pendingNonce)
             upd == updateAccount(WithQueue(accts, from, q2), all, from)
         IN  IF BalanceFails(bc, from)
             THEN [accts |-> accts, all |-> all, err |-> "ErrChainState:reset"]
             ELSE IF NonceFails(bc, from)
             THEN [accts |-> WithQueue(accts, from, q1), all |-> all,
                   err |-> "ErrChainState:reset"]
             ELSE ResetFromKeepsBalance(upd.accts, upd.all, bc, order, i + 1)

RECURSIVE ResetFrom(_, _, _, _, _)
ResetFrom(accts, all, bc, order, i) ==
    IF i > Len(order) THEN [accts |-> accts, all |-> all, err |-> "nil"]
    ELSE LET from == order[i]
             q1 == SetPendingBalance(accts[from], bc.balance[from])
             pendingNonce == confirmedNonce[from] + 1
             q2 == SetPendingNonce(SetStartNonce(q1, pendingNonce), pendingNonce)
             upd == updateAccount(WithQueue(accts, from, q2), all, from)
         IN  IF BalanceFails(bc, from)
             THEN [accts |-> accts, all |-> all, err |-> "ErrChainState:reset"]
             ELSE IF NonceFails(bc, from)
             THEN [accts |-> WithQueue(accts, from, q1), all |-> all,
                   err |-> "ErrChainState:reset"]
             ELSE ResetFrom(upd.accts, upd.all, bc, order, i + 1)

\* order1, order2: the visiting orders of the two range loops.
ResetPool(accts, all, bc, order1, order2) ==
    LET rem == removeConfirmedActs(accts, all, bc, order1)
    IN  ResetFrom(rem.accts, rem.all, bc, order2, 1)

ResetOutcomes(accts, all, bc) ==
    UNION {{ResetPool(accts, all, bc, o1, o2) :
              o2 \in Orders(DOMAIN removeConfirmedActs(accts, all, bc, o1).accts)} :
           o1 \in Orders(DOMAIN accts)}

\* ------------------------------------------------------ validation pipeline
validateTsf(tsf, bc) ==
    IF "coinbase" \in tsf.flaws THEN "ErrTransfer:coinbase"
    ELSE IF "oversize" \in tsf.flaws THEN "ErrActPool:oversized data"
    ELSE IF "gasHigh" \in tsf.flaws THEN "ErrGasHigherThanLimit"
    ELSE IF "gasLow" \in tsf.flaws THEN "ErrInsufficientGas"
    ELSE IF "negAmount" \in tsf.flaws THEN "ErrBalance:negative value"
    ELSE IF "badSender" \in tsf.flaws THEN "ErrAddress:sender"
    ELSE IF "badTarget" \in tsf.flaws THEN "ErrAddress:target"
    ELSE IF "badSig" \in tsf.flaws THEN "ErrSignature"
    ELSE IF NonceFails(bc, tsf.sender) THEN "ErrChainState:validate nonce"
    ELSE IF confirmedNonce[tsf.sender] + 1 > tsf.nonce THEN "ErrNonce:too low"
    ELSE "nil"

validateExecution(exec, bc) ==
    IF "oversize" \in exec.flaws THEN "ErrActPool:oversized data"
    ELSE IF "gasHigh" \in exec.flaws THEN "ErrGasHigherThanLimit"
    ELSE IF "gasLow" \in exec.flaws THEN "ErrInsufficientGas"
    ELSE IF "negAmount" \in exec.flaws THEN "ErrBalance:negative value"
    ELSE IF "badSender" \in exec.flaws THEN "ErrAddress:sender"
    ELSE IF "badTarget" \in exec.flaws THEN "ErrAddress:target"
    ELSE IF "badSig" \in exec.flaws THEN "ErrSignature"
    ELSE IF NonceFails(bc, exec.sender) THEN "ErrChainState:validate nonce"
    ELSE IF confirmedNonce[exec.sender] + 1 > exec.nonce THEN "ErrNonce:too low"
    ELSE "nil"

validateVote(vote, bc) ==
    IF "oversize" \in vote.flaws THEN "ErrActPool:oversized data"
    ELSE IF "gasHigh" \in vote.flaws THEN "ErrGasHigherThanLimit"
    ELSE IF "gasLow" \in vote.flaws THEN "ErrInsufficientGas"
    ELSE IF "badSender" \in vote.flaws THEN "ErrAddress:sender"
    ELSE IF vote.votee # EmptyAddress /\ "badTarget" \in vote.flaws THEN "ErrAddress:target"
    ELSE IF "badSig" \in vote.flaws THEN "ErrSignature"
    ELSE IF NonceFails(bc, vote.sender) THEN "ErrChainState:validate nonce"
    ELSE IF vote.votee # "" /\ StateFails(bc, vote.votee) THEN "ErrChainState:state"
    ELSE IF vote.votee # "" /\ vote.sender # vote.votee /\ vote.votee \notin bc.cands
         THEN "ErrVotee"
    ELSE IF confirmedNonce[vote.sender] + 1 > vote.nonce THEN "ErrNonce:too low"
    ELSE "nil"

\* -------------------------------------------------------- pool: public part
Rejected(accts, all, e) == [accts |-> accts, all |-> all, err |-> e]

\* AddTsf without the test for a hash that is already in the pool.
AddTsfPoolNoDedup(accts, all, bc, tsf) ==
    LET hash == Hash(tsf)
        verr == validateTsf(tsf, bc)
    IN  IF verr # "nil" THEN Rejected(accts, all, verr)
        ELSE IF Cardinality(all) >= cfg.MaxNumActsPerPool
             THEN Rejected(accts, all, "ErrActPool:insufficient space")
        ELSE enqueueAction(accts, all, bc, tsf.sender, tsf, hash, tsf.nonce)

AddTsfPool(accts, all, bc, tsf) ==
    LET hash == Hash(tsf)
        verr == validateTsf(tsf, bc)
    IN  IF hash \in all THEN Rejected(accts, all, "ErrDuplicate")
        ELSE IF verr # "nil" THEN Rejected(accts, all, verr)
        ELSE IF Cardinality(all) >= cfg.MaxNumActsPerPool
             THEN Rejected(accts, all, "ErrActPool:insufficient space")
        ELSE enqueueAction(accts, all, bc, tsf.sender, tsf, hash, tsf.nonce)

\* AddVote that enqueues the vote before it looks at the validation result.
AddVotePoolValidatesLate(accts, all, bc, vote) ==
    LET hash == Hash(vote)
        verr == validateVote(vote, bc)
        enq == enqueueAction(accts, all, bc, vote.sender, vote, hash, vote.nonce)
    IN  IF hash \in all THEN Rejected(accts, all, "ErrDuplicate")
        ELSE IF Cardinality(all) >= cfg.MaxNumActsPerPool
             THEN Rejected(accts, all, "ErrActPool:insufficient space")
        ELSE IF verr # "nil" THEN [accts |-> enq.accts, all |-> enq.all, err |-> verr]
        ELSE enq

AddVotePool(accts, all, bc, vote) ==
    LET hash == Hash(vote)
        verr == validateVote(vote, bc)
    IN  IF hash \in all THEN Rejected(accts, all, "ErrDuplicate")
        ELSE IF verr # "nil" THEN Rejected(accts, all, verr)
        ELSE IF Cardinality(all) >= cfg.MaxNumActsPerPool
             THEN Rejected(accts, all, "ErrActPool:insufficient space")
        ELSE enqueueAction(accts, all, bc, vote.sender, vote, hash, vote.nonce)

AddExecutionPool(accts, all, bc, exec) ==
    LET hash == Hash(exec)
        verr == validateExecution(exec, bc)
    IN  IF hash \in all THEN Rejected(accts, all, "ErrDuplicate")
        ELSE IF verr # "nil" THEN Rejected(accts, all, verr)
        ELSE IF Cardinality(all) >= cfg.MaxNumActsPerPool
             THEN Rejected(accts, all, "ErrActPool:insufficient space")
        ELSE enqueueAction(accts, all, bc, exec.sender, exec, hash, exec.nonce)

\* Add whose capacity test is > instead of >=.
AddPoolOffByOne(accts, all, bc, validatorsOk, act) ==
    LET hash == Hash(act)
    IN  IF Cardinality(all) > cfg.MaxNumActsPerPool
        THEN Rejected(accts, all, "ErrActPool:insufficient space")
        ELSE IF hash \in all THEN Rejected(accts, all, "ErrDuplicate")
        ELSE IF ~validatorsOk THEN Rejected(accts, all, "ErrValidator")
        ELSE enqueueAction(accts, all, bc, act.sender, act, hash, act.nonce)

\* validatorsOk: whether every configured ActionValidator accepts act.
AddPool(accts, all, bc, validatorsOk, act) ==
    LET hash == Hash(act)
    IN  IF Cardinality(all) >= cfg.MaxNumActsPerPool
        THEN Rejected(accts, all, "ErrActPool:insufficient space")
        ELSE IF hash \in all THEN Rejected(accts, all, "ErrDuplicate")
        ELSE IF ~validatorsOk THEN Rejected(accts, all, "ErrValidator")
        ELSE enqueueAction(accts, all, bc, act.sender, act, hash, act.nonce)

\* The loop of PickActs over every stored action instead of PendingActs.
RECURSIVE PickFromAllActs(_, _, _)
PickFromAllActs(accts, order, i) ==
    IF i > Len(order) THEN <<>>
    ELSE ActsBetween(accts[order[i]].items, 0, MaxNonce + 1)
         \o PickFromAllActs(accts, order, i + 1)

\* order: the order in which the range loop visits the queues.
RECURSIVE PickFrom(_, _, _)
PickFrom(accts, order, i) ==
    IF i > Len(order) THEN <<>>
    ELSE PendingActs(accts[order[i]]) \o PickFrom(accts, order, i + 1)

\* The limit tested with > in place of >=.
TakenOneMore(acts) ==
    IF cfg.MaxNumActsToPick > 0 /\ Len(acts) > cfg.MaxNumActsToPick
    THEN SubSeq(acts, 1, cfg.MaxNumActsToPick + 1)
    ELSE acts

\* The loop returns as soon as numActs reaches a positive MaxNumActsToPick.
Taken(acts) ==
    IF cfg.MaxNumActsToPick > 0 /\ Len(acts) >= cfg.MaxNumActsToPick
    THEN SubSeq(acts, 1, cfg.MaxNumActsToPick)
    ELSE acts

Lane(acts, kind) == SelectSeq(acts, LAMBDA a : a.kind = kind)

PickActsPool(accts, order) ==
    LET acts == Taken(PickFrom(accts, order, 1))
    IN  [transfers |-> Lane(acts, "transfer"), votes |-> Lane(acts, "vote"),
         executions |-> Lane(acts, "execution"), actions |-> Lane(acts, "other")]

\* GetPendingNonce that asks the chain without looking for a queue.
GetPendingNoncePoolFromChain(accts, bc, addr) ==
    IF NonceFails(bc, addr)
    THEN [addr |-> addr, nonce |-> 0 + 1, err |-> "ErrChainState:nonce"]
    ELSE [addr |-> addr, nonce |-> confirmedNonce[addr] + 1, err |-> "nil"]

\* bc.Nonce returns 0 together with its error.
GetPendingNoncePool(accts, bc, addr) ==
    IF addr \in DOMAIN accts
    THEN [addr |-> addr, nonce |-> accts[addr].pendingNonce, err |-> "nil"]
    ELSE IF NonceFails(bc, addr)
    THEN [addr |-> addr, nonce |-> 0 + 1, err |-> "ErrChainState:nonce"]
    ELSE [addr |-> addr, nonce |-> confirmedNonce[addr] + 1, err |-> "nil"]

\* ----------------------------------------------------------------- actions
NoQueues == [s \in {} |-> NewActQueue(0)]

\* The facades an admission on behalf of sender s can meet.  The balance and
\* NewActQueue's nonce are read only while the sender's queue is created.
NoBalance == [s \in Senders |-> 0]
AddFacades(s, states) ==
    IF s \in DOMAIN accountActs
    THEN {Facade({}, NoBalance, cands, 1) : cands \in states}
         \cup {Facade({<<s, "Nonce">>}, NoBalance, {}, 1)}
    ELSE {Facade({}, [NoBalance EXCEPT ![s] = b], cands, 1) :
             b \in Balances, cands \in states}
         \cup {Facade({<<s, "Nonce">>}, NoBalance, {}, n0) : n0 \in NewQueueNonces}
         \cup {Facade({<<s, "Balance">>}, NoBalance, {}, 1)}

\* The facades a Reset can meet: it reads the senders that have a queue.
ResetFacades ==
    {Facade(fail, [s \in Senders |-> IF s \in DOMAIN bal THEN bal[s] ELSE 0], {}, 1) :
        fail \in {{}} \cup {{<<s, c>>} : s \in DOMAIN accountActs, c \in {"Nonce", "Balance"}},
        bal \in [DOMAIN accountActs -> Balances]}

\* The facades of bcs the environment of this specification can present.
Met(bcs) == {bc \in bcs : setup.faults \/ bc.fail = {}}

AddOps == {"AddTsf", "AddVote", "AddExecution", "Add"}

\* What is recorded of a result: the error itself, or only whether there was
\* one; and whether the operation took hashes out of allActions.
Recorded(op, err, evicted) ==
    IF setup.trace THEN [op |-> op, err |-> err, evicted |-> evicted]
    ELSE [op |-> IF op \in {"AddTsf", "AddVote", "AddExecution"} THEN "Add" ELSE op,
          err |-> IF err = "nil" THEN "nil" ELSE "error",
          evicted |-> evicted]

\* subm: the hashes of the submitted actions (none for Reset and PickActs).
Returns(op, subm, r) ==
    /\ accountActs' = r.accts
    /\ allActions' = r.all
    /\ last' = Recorded(op, r.err, allActions \ r.all # {})
    /\ admitted' = IF setup.hist /\ r.err = "nil" THEN admitted \cup subm ELSE admitted
    /\ returned' = <<>>
    /\ UNCHANGED <<confirmedNonce, setup, lockVars, codecVars>>

AddTsf ==
    \E tsf \in {a \in Offered(setup.offered) : a.kind = "transfer"} :
      \E bc \in Met(AddFacades(tsf.sender, {{}})) :
        Returns("AddTsf", {Hash(tsf)}, AddTsfPool(accountActs, allActions, bc, tsf))

AddVote ==
    \E vote \in {a \in Offered(setup.offered) : a.kind = "vote"} :
      \E bc \in Met(AddFacades(vote.sender, {{}, {vote.votee}})
                    \cup {Facade({<<vote.votee, "State">>}, NoBalance, {}, 1)}) :
        Returns("AddVote", {Hash(vote)}, AddVotePool(accountActs, allActions, bc, vote))

AddExecution ==
    \E exec \in {a \in Offered(setup.offered) : a.kind = "execution"} :
      \E bc \in Met(AddFacades(exec.sender, {{}})) :
        Returns("AddExecution", {Hash(exec)},
                AddExecutionPool(accountActs, allActions, bc, exec))

Add ==
    \E act \in Offered(setup.offered) :
      \/ \E bc \in Met(AddFacades(act.sender, {{}})) :
            Returns("Add", {Hash(act)}, AddPool(accountActs, allActions, bc, TRUE, act))
      \/ Returns("Add", {Hash(act)},
                 AddPool(accountActs, allActions, Facade({}, NoBalance, {}, 1), FALSE, act))

Reset ==
    \E bc \in Met(ResetFacades) : \E r \in ResetOutcomes(accountActs, allActions, bc) :
        Returns("Reset", {}, r)

\* A query: the pool stays as it is and the value goes to the caller.
Answers(op, err, value) ==
    /\ last' = Recorded(op, err, FALSE)
    /\ returned' = IF setup.queries THEN value ELSE returned
    /\ UNCHANGED <<accountActs, allActions, confirmedNonce, admitted, setup, lockVars, codecVars>>

PickActs ==
    \E order \in Orders(DOMAIN accountActs) :
        Answers("PickActs", "nil", PickActsPool(accountActs, order))

GetPendingNonce ==
    \E addr \in Senders :
      \E bc \in Met({Facade(fail, NoBalance, {}, 1) : fail \in {{}, {<<addr, "Nonce">>}}}) :
        LET r == GetPendingNoncePool(accountActs, bc, addr)
        IN  Answers("GetPendingNonce", r.err, r)

\* The chain commits a block that raises the confirmed nonce of an account.
Commit ==
    \E s \in Senders :
        /\ confirmedNonce[s] < MaxConfirmed
        /\ confirmedNonce' = [confirmedNonce EXCEPT ![s] = @ + 1]
        /\ UNCHANGED <<accountActs, allActions, last, admitted, returned, setup, lockVars,
                       codecVars>>

Next ==
    \/ AddTsf
    \/ AddVote
    \/ AddExecution
    \/ Add
    \/ Reset
    \/ PickActs
    \/ GetPendingNonce
    \/ Commit

\* No StartSubChain and no envelope.
NilStart == [isNil |-> TRUE]
NilPb == [isNil |-> TRUE]

\* ------------------------------------------------------------ actPool.mutex
\* The goroutines that call the pool.
Goroutines == {"g1", "g2"}
NoGoroutine == "none"

\* sync.RWMutex: one writer or any number of readers.  It has no owner: a
\* goroutine that asks for it while holding it waits like any other.
NewMutex == [writer |-> NoGoroutine, readers |-> {}]

\* RLock that does not wait for the writer.
CanRLockDuringWrite(m) == TRUE
CanRLock(m) == m.writer = NoGoroutine
CanLock(m) == m.writer = NoGoroutine /\ m.readers = {}

\* A goroutine outside the pool.  Inside, it has the operation op, is at pc,
\* has the argument in fixed so far, and owes allActions the hashes add/del.
NoInput == [kind |-> "none"]
Idle == [op |-> "", pc |-> "idle", in |-> NoInput, add |-> {}, del |-> {}, err |-> "nil"]

InitPool ==
    /\ accountActs = NoQueues
    /\ allActions = {}
    /\ confirmedNonce = [s \in Senders |-> 0]
    /\ admitted = {}
    /\ returned = <<>>
    /\ mutex = NewMutex
    /\ calls = [g \in Goroutines |-> Idle]
    /\ serial = [accts |-> NoQueues, all |-> {}]
    /\ start = NilStart
    /\ actPb = NilPb

\* The configuration and the balances of Spec, SpecTrace and SpecHist.
Setup(offered, trace, hist) ==
    [offered |-> offered, trace |-> trace, hist |-> hist, queries |-> FALSE, faults |-> TRUE,
     cfg |-> Config(MaxNumActsPerPool, MaxNumActsPerAcct, 0), maxBalance |-> MaxBalance]

\* Spec: the actions of MainActs are submitted; results are recorded coarsely.
Init ==
    /\ InitPool
    /\ setup = Setup("main", FALSE, FALSE)
    /\ last = Recorded("NewActPool", "nil", FALSE)

Spec == Init /\ [][Next]_vars

\* SpecTrace: fewer actions, flawed ones among them; every error is recorded.
InitTrace ==
    /\ InitPool
    /\ setup = Setup("trace", TRUE, FALSE)
    /\ last = Recorded("NewActPool", "nil", FALSE)

SpecTrace == InitTrace /\ [][Next]_vars

\* SpecHist: a few actions of one sender; every error is recorded and the
\* admitted hashes are remembered.
InitHist ==
    /\ InitPool
    /\ setup = Setup("hist", TRUE, TRUE)
    /\ last = Recorded("NewActPool", "nil", FALSE)

SpecHist == InitHist /\ [][Next]_vars

\* SpecWide: a pool of WidePool actions and balances up to WideBalance, once
\* with a window of MaxNumActsPerAcct nonces and no pick limit, once with a
\* window of WideAcct nonces and a pick limit of MaxPick; the facade never
\* fails; every error and every answer to a query is recorded.
InitWide ==
    /\ InitPool
    /\ \E c \in {Config(WidePool, MaxNumActsPerAcct, 0), Config(WidePool, WideAcct, MaxPick)} :
          setup = [offered |-> "wide", trace |-> TRUE, hist |-> FALSE, queries |-> TRUE,
                   faults |-> FALSE, cfg |-> c, maxBalance |-> WideBalance]
    /\ last = Recorded("NewActPool", "nil", FALSE)

SpecWide == InitWide /\ [][Next]_vars

\* ------------------------------------------------- concurrent callers
\* Every public operation starts with ap.mutex.Lock() or ap.mutex.RLock()
\* and ends with the deferred Unlock()/RUnlock().  In between it writes the
\* queues first and allActions afterwards (enqueueAction: Put, then
\* allActions[hash] = act), so a goroutine passes
\*   idle -> waiting -> locked [-> callback -> called] -> queued -> idle
\* for a writer-side operation and idle -> waiting -> rlocked -> idle for a
\* reader-side one.
WriterOps == AddOps \cup {"Reset", "PickActs", "GetPendingNonce", "GetUnconfirmedActs"}
ReaderOps == {"GetActionByHash", "GetSize"}

AllActs(q) == ActsBetween(q.items, 0, MaxNonce + 1)

GetUnconfirmedActsPool(accts, addr) ==
    IF addr \in DOMAIN accts THEN AllActs(accts[addr]) ELSE <<>>

GetActionByHashPool(all, hash) ==
    IF hash \in all THEN [found |-> TRUE, err |-> "nil"] ELSE [found |-> FALSE, err |-> "ErrHash"]

GetSizePool(all) == Cardinality(all)

\* The entry point op takes act.
Takes(op, act) ==
    \/ op = "Add"
    \/ op = "AddTsf" /\ act.kind = "transfer"
    \/ op = "AddVote" /\ act.kind = "vote"
    \/ op = "AddExecution" /\ act.kind = "execution"

Admit(op, accts, all, bc, validatorsOk, act) ==
    CASE op = "AddTsf" -> AddTsfPool(accts, all, bc, act)
      [] op = "AddVote" -> AddVotePool(accts, all, bc, act)
      [] op = "AddExecution" -> AddExecutionPool(accts, all, bc, act)
      [] op = "Add" -> AddPool(accts, all, bc, validatorsOk, act)

Moves(g, c) ==
    /\ calls' = [calls EXCEPT ![g] = c]
    /\ returned' = <<>>
    /\ UNCHANGED <<accountActs, allActions, confirmedNonce, last, admitted, setup, serial,
                   codecVars>>

\* A goroutine calls an operation of the pool.
Call ==
    \E g \in Goroutines : \E op \in WriterOps \cup ReaderOps :
        /\ calls[g].pc = "idle"
        /\ Moves(g, [Idle EXCEPT !.op = op, !.pc = "waiting"])
        /\ UNCHANGED mutex

Lock ==
    \E g \in Goroutines :
        /\ calls[g].pc = "waiting"
        /\ calls[g].op \in WriterOps
        /\ CanLock(mutex)
        /\ mutex' = [mutex EXCEPT !.writer = g]
        /\ Moves(g, [calls[g] EXCEPT !.pc = "locked"])

RLock ==
    \E g \in Goroutines :
        /\ calls[g].pc = "waiting"
        /\ calls[g].op \in ReaderOps
        /\ CanRLock(mutex)
        /\ mutex' = [mutex EXCEPT !.readers = @ \cup {g}]
        /\ Moves(g, [calls[g] EXCEPT !.pc = "rlocked"])

\* The operation reaches a call into code the pool does not own: Add calls
\* validator.Validate(act) once the capacity and duplicate tests have passed;
\* Reset calls bc.Nonce and bc.Balance for every queue; GetPendingNonce calls
\* bc.Nonce for an address without a queue.
CallOut ==
    \E g \in Goroutines :
        /\ calls[g].pc = "locked"
        /\ \/ /\ calls[g].op = "Add"
              /\ \E act \in Offered(setup.offered) :
                    /\ Cardinality(allActions) < cfg.MaxNumActsPerPool
                    /\ Hash(act) \notin allActions
                    /\ Moves(g, [calls[g] EXCEPT !.pc = "callback", !.in = act])
           \/ /\ calls[g].op = "Reset"
              /\ DOMAIN accountActs # {}
              /\ Moves(g, [calls[g] EXCEPT !.pc = "callback"])
           \/ /\ calls[g].op = "GetPendingNonce"
              /\ \E addr \in Senders \ DOMAIN accountActs :
                    Moves(g, [calls[g] EXCEPT !.pc = "callback", !.in = [kind |-> "addr", addr |-> addr]])
        /\ UNCHANGED mutex

\* The callee returns to the pool.
Return ==
    \E g \in Goroutines :
        /\ calls[g].pc = "callback"
        /\ Moves(g, [calls[g] EXCEPT !.pc = "called"])
        /\ UNCHANGED mutex

\* The callee calls an operation of the pool, which asks for the lock as
\* every operation does.  The goroutine holds the lock as a writer and
\* releases it only after the callee has returned, so neither Lock nor RLock
\* is ever granted to it: it has no further step.
Reenter ==
    \E g \in Goroutines : \E op \in {"GetSize", "GetPendingNonce"} :
        /\ calls[g].pc = "callback"
        /\ Moves(g, [calls[g] EXCEPT !.pc = "reentering", !.in = [kind |-> "inner", op |-> op]])
        /\ UNCHANGED mutex

\* The body of a writer-side operation up to its writes to the queues.  r is
\* its result on the pool as it is, s its result on serial; what it owes
\* allActions is written by Unlock.
Writes(g, r, s, answer) ==
    /\ accountActs' = r.accts
    /\ serial' = [accts |-> s.accts, all |-> s.all]
    /\ calls' = [calls EXCEPT ![g] = [@ EXCEPT !.pc = "queued", !.add = r.all \ allActions,
                                               !.del = allActions \ r.all, !.err = r.err]]
    /\ returned' = answer
    /\ UNCHANGED <<allActions, confirmedNonce, last, admitted, setup, mutex, codecVars>>

Reads(g, err, value, expected) ==
    Writes(g, [accts |-> accountActs, all |-> allActions, err |-> err], serial,
           [op |-> calls[g].op, value |-> value, serial |-> expected, queued |-> FALSE])

Run ==
    \E g \in Goroutines :
        LET c == calls[g]
        IN  /\ c.pc \in {"locked", "called"}
            /\ \/ /\ c.op \in AddOps
                  /\ \E act \in {a \in Offered(setup.offered) : Takes(c.op, a)} :
                     \E ok \in BOOLEAN :
                     \E bc \in Met(AddFacades(act.sender,
                                   IF act.kind = "vote" THEN {{}, {act.votee}} ELSE {{}})) :
                        /\ c.pc = "called" => act = c.in
                        /\ c.pc = "locked" => ok
                        /\ Writes(g, Admit(c.op, accountActs, allActions, bc, ok, act),
                                  Admit(c.op, serial.accts, serial.all, bc, ok, act), <<>>)
               \/ /\ c.op = "Reset"
                  /\ c.pc = "locked" => DOMAIN accountActs = {}
                  /\ \E bc \in Met(ResetFacades) :
                     \E r \in ResetOutcomes(accountActs, allActions, bc) :
                     \E s \in ResetOutcomes(serial.accts, serial.all, bc) :
                        Writes(g, r, s, <<>>)
               \/ /\ c.op = "PickActs"
                  /\ \E order \in Orders(DOMAIN accountActs) :
                     \E other \in Orders(DOMAIN serial.accts) :
                        /\ DOMAIN accountActs = DOMAIN serial.accts => other = order
                        /\ Reads(g, "nil", PickActsPool(accountActs, order),
                                 PickActsPool(serial.accts, other))
               \/ /\ c.op = "GetPendingNonce"
                  /\ \E addr \in Senders :
                        /\ c.pc = "called" <=> addr \notin DOMAIN accountActs
                        /\ c.pc = "called" => addr = c.in.addr
                        /\ LET bc == Facade({}, NoBalance, {}, 1)
                           IN  Reads(g, "nil", GetPendingNoncePool(accountActs, bc, addr),
                                     GetPendingNoncePool(serial.accts, bc, addr))
               \/ /\ c.op = "GetUnconfirmedActs"
                  /\ \E addr \in Senders :
                        Reads(g, "nil", GetUnconfirmedActsPool(accountActs, addr),
                              GetUnconfirmedActsPool(serial.accts, addr))

\* The rest of the body, the writes to allActions, and the deferred Unlock.
Unlock ==
    \E g \in Goroutines :
        /\ calls[g].pc = "queued"
        /\ allActions' = (allActions \cup calls[g].add) \ calls[g].del
        /\ mutex' = [mutex EXCEPT !.writer = NoGoroutine]
        /\ calls' = [calls EXCEPT ![g] = Idle]
        /\ last' = Recorded(calls[g].op, calls[g].err, calls[g].del # {})
        /\ returned' = <<>>
        /\ UNCHANGED <<accountActs, confirmedNonce, admitted, setup, serial, codecVars>>

\* The body of a reader-side operation and the deferred RUnlock.
RUnlock ==
    \E g \in Goroutines :
        /\ calls[g].pc = "rlocked"
        /\ \/ /\ calls[g].op = "GetSize"
              /\ returned' = [op |-> "GetSize", value |-> GetSizePool(allActions),
                              serial |-> GetSizePool(serial.all), queued |-> FALSE]
              /\ last' = Recorded("GetSize", "nil", FALSE)
           \/ /\ calls[g].op = "GetActionByHash"
              /\ \E act \in Offered(setup.offered) :
                    LET r == GetActionByHashPool(allActions, Hash(act))
                    IN  /\ returned' = [op |-> "GetActionByHash", value |-> r,
                                        serial |-> GetActionByHashPool(serial.all, Hash(act)),
                                        queued |-> /\ act.sender \in DOMAIN accountActs
                                                   /\ act \in accountActs[act.sender].items]
                        /\ last' = Recorded("GetActionByHash", r.err, FALSE)
        /\ mutex' = [mutex EXCEPT !.readers = @ \ {g}]
        /\ calls' = [calls EXCEPT ![g] = Idle]
        /\ UNCHANGED <<accountActs, allActions, confirmedNonce, admitted, setup, serial,
                       codecVars>>

NextLock ==
    \/ Call
    \/ Lock
    \/ RLock
    \/ CallOut
    \/ Return
    \/ Reenter
    \/ Run
    \/ Unlock
    \/ RUnlock
    \/ Commit

\* SpecLock: two goroutines call the operations of a pool that is offered
\* the actions of HistActs; the facade never fails.
InitLock ==
    /\ InitPool
    /\ setup = [offered |-> "hist", trace |-> FALSE, hist |-> FALSE, queries |-> TRUE,
                faults |-> FALSE, cfg |-> Config(MaxNumActsPerPool, MaxNumActsPerAcct, 0),
                maxBalance |-> MaxBalance]
    /\ last = Recorded("NewActPool", "nil", FALSE)

SpecLock == InitLock /\ [][NextLock]_vars

\* ------------------------------------------------- action.StartSubChain
\* A *big.Int: nil or an integer.
BigNil == [isNil |-> TRUE]
Big(n) == [isNil |-> FALSE, value |-> n]

Abs(n) == IF n < 0 THEN 0 - n ELSE n

\* big.Int.Bytes(): the absolute value, big-endian, without leading zeros.
RECURSIVE Bytes(_)
Bytes(n) == IF n = 0 THEN <<>> ELSE Bytes(n \div 256) \o <<n % 256>>

\* big.Int.SetBytes(): the bytes read as a big-endian unsigned integer.
RECURSIVE SetBytes(_)
SetBytes(buf) ==
    IF buf = <<>> THEN 0
    ELSE SetBytes(SubSeq(buf, 1, Len(buf) - 1)) * 256 + buf[Len(buf)]

\* What  if x != nil && len(x.Bytes()) > 0 { ... x.Bytes() ... }  yields.
BytesIfSet(x) ==
    IF ~x.isNil /\ Len(Bytes(Abs(x.value))) > 0 THEN Bytes(Abs(x.value)) ELSE <<>>

\* enc.MachineEndian: the byte order of the platform.
MachineEndian == setup.endian

RECURSIVE ShiftRight(_, _)
ShiftRight(n, k) == IF k = 0 THEN n ELSE ShiftRight(n \div 256, k - 1)

\* PutUint32 / PutUint64 into a buffer of width bytes.
PutUint(width, n) ==
    IF MachineEndian = "little"
    THEN [i \in 1..width |-> ShiftRight(n, i - 1) % 256]
    ELSE [i \in 1..width |-> ShiftRight(n, width - i) % 256]

\* PutUint32(buf, n) with a longer buf: its first four bytes are overwritten.
PutUint32Into(buf, n) ==
    [i \in 1..Len(buf) |-> IF i <= 4 THEN PutUint(4, n)[i] ELSE buf[i]]

\* []byte(reflect.TypeOf(start).String()): "*action.StartSubChain".
TypeTag ==
    <<42, 97, 99, 116, 105, 111, 110, 46, 83, 116, 97, 114, 116,
      83, 117, 98, 67, 104, 97, 105, 110>>

\* The bytes of an address string.
AddrBytes(addr) == IF addr = "A" THEN <<65>> ELSE <<66>>

\* keypair.PublicKey is an array of fixed length.
KeyLength == 2
ZeroPublicKey == [i \in 1..KeyLength |-> 0]
PublicKeys == {ZeroPublicKey, [i \in 1..KeyLength |-> IF i = 1 THEN 7 ELSE 0]}

Uints == 0..MaxField
Deposits == {BigNil} \cup {Big(n) : n \in (0 - MaxDeposit)..MaxDeposit}

\* NewStartSubChain, and the fields a decoded or signed action has besides.
StartSubChains ==
    [version : Uints, nonce : Uints, srcAddr : Senders, srcPubkey : PublicKeys,
     gasLimit : {MaxField}, gasPrice : {BigNil, Big(0), Big(1)},
     signature : {<<>>, <<9>>},
     chainID : Uints, securityDeposit : Deposits, operationDeposit : Deposits,
     startHeight : {MaxField}, parentHeightOffset : Uints]

ByteStream(s) ==
    LET stream == PutUint32Into(TypeTag, s.version)
        temp == [i \in 1..4 |-> 0]
    IN  stream \o temp
        \o PutUint(8, s.nonce)
        \o PutUint(4, s.chainID)
        \o BytesIfSet(s.securityDeposit)
        \o BytesIfSet(s.operationDeposit)
        \o PutUint(8, s.startHeight)
        \o PutUint(8, s.parentHeightOffset)
        \o AddrBytes(s.srcAddr)
        \o s.srcPubkey
        \o PutUint(8, s.gasLimit)
        \o BytesIfSet(s.gasPrice)

\* blake2b.Sum256, taken to be free of collisions.
StartSubChainHash(s) == [blake2b |-> ByteStream(s)]

Proto(s) ==
    [version |-> s.version, nonce |-> s.nonce, gasLimit |-> s.gasLimit,
     signature |-> s.signature, gasPrice |-> BytesIfSet(s.gasPrice),
     startSubChain |->
        [chainID |-> s.chainID, startHeight |-> s.startHeight,
         parentHeightOffset |-> s.parentHeightOffset, ownerAddress |-> s.srcAddr,
         ownerPublicKey |-> s.srcPubkey,
         securityDeposit |-> BytesIfSet(s.securityDeposit),
         operationDeposit |-> BytesIfSet(s.operationDeposit)]]

\* copy(dst[:], src) into a zeroed array.
CopyKey(src) == [i \in 1..KeyLength |-> IF i <= Len(src) THEN src[i] ELSE 0]

\* big.NewInt(0), then SetBytes if there are bytes.
BigFromBytes(buf) == IF Len(buf) > 0 THEN Big(SetBytes(buf)) ELSE Big(0)

NewStartSubChainFromProto(pb) ==
    IF pb = NilPb THEN NilStart
    ELSE [version |-> pb.version, nonce |-> pb.nonce,
          srcAddr |-> pb.startSubChain.ownerAddress,
          srcPubkey |-> CopyKey(pb.startSubChain.ownerPublicKey),
          gasLimit |-> pb.gasLimit, gasPrice |-> BigFromBytes(pb.gasPrice),
          signature |-> pb.signature,
          chainID |-> pb.startSubChain.chainID,
          securityDeposit |-> BigFromBytes(pb.startSubChain.securityDeposit),
          operationDeposit |-> BigFromBytes(pb.startSubChain.operationDeposit),
          startHeight |-> pb.startSubChain.startHeight,
          parentHeightOffset |-> pb.startSubChain.parentHeightOffset]

Converts(op, value) ==
    /\ returned' = [op |-> op, value |-> value]
    /\ UNCHANGED <<accountActs, allActions, confirmedNonce, last, admitted, setup, lockVars,
                   codecVars>>

CallByteStream ==
    /\ start # NilStart
    /\ Converts("ByteStream", ByteStream(start))

CallHash ==
    /\ start # NilStart
    /\ Converts("Hash", StartSubChainHash(start))

CallProto ==
    /\ start # NilStart
    /\ actPb' = Proto(start)
    /\ returned' = <<>>
    /\ UNCHANGED <<accountActs, allActions, confirmedNonce, last, admitted, setup, lockVars,
                   start>>

\* The envelope is decoded; the caller gets a new action.
CallNewStartSubChainFromProto ==
    /\ actPb # NilPb
    /\ Converts("NewStartSubChainFromProto", NewStartSubChainFromProto(actPb))

NextCodec ==
    \/ CallByteStream
    \/ CallHash
    \/ CallProto
    \/ CallNewStartSubChainFromProto

\* SpecCodec: a StartSubChain action, on a platform of either byte order, is
\* serialized, hashed, converted to its envelope and back.
InitCodec ==
    /\ accountActs = NoQueues
    /\ allActions = {}
    /\ confirmedNonce = [s \in Senders |-> 0]
    /\ admitted = {}
    /\ returned = <<>>
    /\ mutex = NewMutex
    /\ calls = [g \in Goroutines |-> Idle]
    /\ serial = [accts |-> NoQueues, all |-> {}]
    /\ \E e \in {"little", "big"} : setup = [endian |-> e]
    /\ last = [op |-> "NewStartSubChain", err |-> "nil", evicted |-> FALSE]
    /\ start \in StartSubChains
    /\ actPb = NilPb

SpecCodec == InitCodec /\ [][NextCodec]_vars

\* ------------------------------------------------ ChainService.HandleAction
\* The incoming envelope holds a transfer, a vote or an execution, which goes
\* to the entry point of its variant, or something else, which goes nowhere.
HandleActionPool(accts, all, bc, act) ==
    CASE act.kind = "transfer" -> AddTsfPool(accts, all, bc, act)
      [] act.kind = "vote" -> AddVotePool(accts, all, bc, act)
      [] act.kind = "execution" -> AddExecutionPool(accts, all, bc, act)
      [] OTHER -> [accts |-> accts, all |-> all, err |-> "nil"]

HandleAction ==
    \E act \in Offered(setup.offered) :
      \E bc \in Met(AddFacades(act.sender,
                    IF act.kind = "vote" THEN {{}, {act.votee}} ELSE {{}})) :
        Returns("HandleAction", {Hash(act)},
                HandleActionPool(accountActs, allActions, bc, act))

NextService ==
    \/ HandleAction
    \/ AddTsf
    \/ AddVote
    \/ AddExecution
    \/ Add
    \/ Reset
    \/ PickActs
    \/ GetPendingNonce
    \/ Commit

\* SpecService: the pool of SpecTrace behind a chain service that receives
\* actions from the network.
SpecService == InitTrace /\ [][NextService]_vars

\* ------------------------------------------------------------------ claims
QueueOf(s) == accountActs[s]
HoldersOf(h) == {s \in DOMAIN accountActs : \E a \in QueueOf(s).items : Hash(a) = h}
ReadyActs(q) == {a \in q.items : q.startNonce <= a.nonce /\ a.nonce < q.pendingNonce}

RECURSIVE SumCost(_)
SumCost(acts) ==
    IF acts = {} THEN 0
    ELSE LET a == CHOOSE x \in acts : TRUE IN a.cost + SumCost(acts \ {a})

\* C1 (I1, uniqueness): a hash is a key of allActions iff exactly one
\* sender's queue holds an action with that hash.
C1_Uniqueness ==
    \A h \in Hashes(Universe) : h \in allActions <=> Cardinality(HoldersOf(h)) = 1

\* An operation has taken actions out of a queue and the pool still holds some.
C1_Witness ==
    /\ last.evicted
    /\ allActions # {}
    /\ \E s \in DOMAIN accountActs : QueueOf(s).items # {}

\* C2 (I5, capacity): allActions never has more than MaxNumActsPerPool entries.
C2_Capacity == Cardinality(allActions) <= cfg.MaxNumActsPerPool

\* An admission was refused while the pool was full.
C2_Witness ==
    /\ Cardinality(allActions) = cfg.MaxNumActsPerPool
    /\ last.op \in AddOps \cup {"Add"}
    /\ last.err # "nil"

\* C3 (I2, nonce window): every stored action lies in
\* [startNonce, startNonce + MaxNumActsPerAcct) of its queue.
C3_NonceWindow ==
    \A s \in DOMAIN accountActs : \A a \in QueueOf(s).items :
        /\ QueueOf(s).startNonce <= a.nonce
        /\ a.nonce < QueueOf(s).startNonce + cfg.MaxNumActsPerAcct

\* C4 (I3, contiguity): pendingNonce >= startNonce and every nonce of
\* [startNonce, pendingNonce) is stored.
C4_ReadyPrefixContiguous ==
    \A s \in DOMAIN accountActs :
        /\ QueueOf(s).pendingNonce >= QueueOf(s).startNonce
        /\ \A n \in QueueOf(s).startNonce..(QueueOf(s).pendingNonce - 1) :
              HasNonce(QueueOf(s), n)

\* C5 (I4, balance feasibility): the cost of the ready prefix is at most the
\* balance the queue was last given.
C5_BalanceFeasible ==
    \A s \in DOMAIN accountActs :
        SumCost(ReadyActs(QueueOf(s))) <= QueueOf(s).givenBalance

\* C6: accountActs holds no empty queue.
C6_NoEmptyQueue ==
    \A s \in DOMAIN accountActs : ~Empty(QueueOf(s))

\* The facades of a claim about an admission: every failure, and every value
\* of what the admission reads: the balance when the sender has no queue,
\* the candidates when the action is a vote.
ClaimFacades(act) ==
    {Facade(fail, [NoBalance EXCEPT ![act.sender] = b], cands, 1) :
        fail \in {{}, {<<act.sender, "Nonce">>}, {<<act.sender, "Balance">>}}
                 \cup (IF act.kind = "vote" THEN {{<<act.votee, "State">>}} ELSE {}),
        b \in (IF act.sender \in DOMAIN accountActs THEN {0} ELSE Balances),
        cands \in (IF act.kind = "vote" THEN SUBSET Senders ELSE {{}})}

\* The result of submitting act, through the entry point of its variant, to
\* the pool <<accts, all>>.
TypedAdd(accts, all, bc, act) ==
    CASE act.kind = "transfer" -> AddTsfPool(accts, all, bc, act)
      [] act.kind = "vote" -> AddVotePool(accts, all, bc, act)
      [] act.kind = "execution" -> AddExecutionPool(accts, all, bc, act)
      [] OTHER -> AddPool(accts, all, bc, TRUE, act)

\* The same for the pool as it is now.
TypedAddResult(act, bc) == TypedAdd(accountActs, allActions, bc, act)

\* The results of submitting act through every entry point that takes it.
AddResults(act, bc) ==
    {TypedAddResult(act, bc)}
    \cup {AddPool(accountActs, allActions, bc, ok, act) : ok \in BOOLEAN}

PoolUnchangedBy(r) == r.accts = accountActs /\ r.all = allActions

\* The errors of the validation pipeline the claims list: dedup, variant
\* precheck, gas, address, signature, nonce floor, candidate check, capacity.
PipelineErrs ==
    {"ErrDuplicate", "ErrTransfer:coinbase", "ErrActPool:oversized data",
     "ErrBalance:negative value", "ErrGasHigherThanLimit", "ErrInsufficientGas",
     "ErrAddress:sender", "ErrAddress:target", "ErrSignature", "ErrNonce:too low",
     "ErrVotee", "ErrActPool:insufficient space"}

\* Every error returned before enqueueAction is called.
PreQueueErrs ==
    PipelineErrs \cup {"ErrChainState:validate nonce", "ErrChainState:state", "ErrValidator"}

\* The sender's queue stores, at the nonce of act, an action with another hash.
NonceTaken(act) ==
    /\ act.sender \in DOMAIN accountActs
    /\ \E a \in QueueOf(act.sender).items : a.nonce = act.nonce /\ Hash(a) # Hash(act)

\* C7 as claimed (I6): an add at a nonce the queue already stores, with a
\* different hash, fails with the duplicate-nonce error and changes nothing.
C7_DuplicateNonceError ==
    \A act \in Universe : NonceTaken(act) =>
        \A bc \in ClaimFacades(act) : \A r \in AddResults(act, bc) :
            r.err = "ErrNonce:duplicate nonce" /\ PoolUnchangedBy(r)

\* C7 as amended: such an add fails and changes nothing; its error is the
\* duplicate-nonce error unless a check made before the queue is consulted
\* (dedup, validation, capacity, validators) has already rejected it.
C7_NoReplacement ==
    \A act \in Universe : NonceTaken(act) =>
        \A bc \in ClaimFacades(act) : \A r \in AddResults(act, bc) :
            /\ r.err \in PreQueueErrs \cup {"ErrNonce:duplicate nonce"}
            /\ PoolUnchangedBy(r)

\* An add was rejected for a duplicate nonce and the stored action is there.
C7_Witness ==
    /\ last.op \in AddOps
    /\ last.err = "ErrNonce:duplicate nonce"
    /\ \E act \in Universe : NonceTaken(act)

\* C8 as claimed: a hash that was admitted once is never admitted again.
C8_NeverAdmittedTwice ==
    [][\A h \in admitted : h \in allActions' => h \in allActions]_vars

\* C8 as amended: while a hash is in allActions no add of that hash is
\* admitted: the typed entry points answer ErrDuplicate, Add answers
\* ErrDuplicate or, when the pool is full, insufficient space.
C8_NoAdmissionWhilePresent ==
    \A act \in Universe : Hash(act) \in allActions =>
        \A bc \in ClaimFacades(act) :
            /\ act.kind # "other" => TypedAddResult(act, bc).err = "ErrDuplicate"
            /\ \A ok \in BOOLEAN :
                  AddPool(accountActs, allActions, bc, ok, act).err
                      \in {"ErrDuplicate", "ErrActPool:insufficient space"}

\* An admitted hash is in the pool and an add has been refused as a duplicate.
C8_Witness ==
    /\ last.op \in AddOps
    /\ last.err = "ErrDuplicate"
    /\ admitted \cap allActions # {}

\* C9: an add rejected by the validation pipeline changes nothing in the
\* pool; adding an action that is in the pool answers ErrDuplicate; an
\* otherwise valid vote for a non-candidate other than the voter answers ErrVotee.
C9_RejectionLeavesPool ==
    \A act \in Universe : \A bc \in ClaimFacades(act) :
        /\ \A r \in AddResults(act, bc) : r.err \in PipelineErrs => PoolUnchangedBy(r)
        /\ Hash(act) \in allActions /\ act.kind # "other"
              => TypedAddResult(act, bc).err = "ErrDuplicate"
        /\ (/\ act.kind = "vote" /\ act.flaws = {} /\ bc.fail = {}
            /\ Hash(act) \notin allActions
            /\ act.votee \notin {EmptyAddress, act.sender} \cup bc.cands)
              => TypedAddResult(act, bc).err = "ErrVotee"

\* A vote for a non-candidate was refused while the pool held one action.
C9_Witness ==
    /\ last.op = "AddVote"
    /\ last.err = "ErrVotee"
    /\ Cardinality(allActions) = 1

\* C10 (I7): with the chain held fixed and no facade error, a second Reset
\* leaves the pool as the first one left it.
C10_ResetIdempotent ==
    \A bal \in [Senders -> Balances] :
        LET bc == Facade({}, bal, {}, 1)
        IN  \A r1 \in ResetOutcomes(accountActs, allActions, bc) :
                \A r2 \in ResetOutcomes(r1.accts, r1.all, bc) :
                    r2.accts = r1.accts /\ r2.all = r1.all

\* A Reset without facade error has removed actions and left others.
C10_Witness ==
    /\ last.op = "Reset"
    /\ last.err = "nil"
    /\ last.evicted
    /\ allActions # {}

\* The facades of a Reset in which no call fails, one for every assignment
\* of balances.
SoundFacades == {Facade({}, bal, {}, 1) : bal \in [Senders -> Balances]}

\* C11: after a Reset that met no facade error no stored action and no hash
\* of allActions has a nonce <= the confirmed nonce of its sender, and every
\* queue starts at the confirmed nonce + 1 with its ready prefix recomputed
\* against the refreshed balance: contiguous from the start, paid for by the
\* balance, pendingBalance the remainder, and not extensible.
C11_ResetPostcondition ==
    \A bc \in SoundFacades : \A r \in ResetOutcomes(accountActs, allActions, bc) :
        /\ r.err = "nil"
        /\ \A act \in Universe :
              Hash(act) \in r.all => act.nonce > confirmedNonce[act.sender]
        /\ \A s \in DOMAIN r.accts :
              LET q == r.accts[s]
              IN  /\ \A a \in q.items : a.nonce > confirmedNonce[s]
                  /\ q.startNonce = confirmedNonce[s] + 1
                  /\ q.pendingNonce >= q.startNonce
                  /\ \A n \in q.startNonce..(q.pendingNonce - 1) : HasNonce(q, n)
                  /\ q.pendingBalance = bc.balance[s] - SumCost(ReadyActs(q))
                  /\ q.pendingBalance >= 0
                  /\ ~\E a \in q.items : a.nonce = q.pendingNonce /\ a.cost <= q.pendingBalance

\* A Reset without facade error has removed confirmed actions of a sender and
\* re-based the queue that sender still has.
C11_Witness ==
    /\ last.op = "Reset"
    /\ last.err = "nil"
    /\ last.evicted
    /\ \E s \in DOMAIN accountActs :
          /\ confirmedNonce[s] >= 1
          /\ QueueOf(s).startNonce = confirmedNonce[s] + 1
          /\ QueueOf(s).items # {}

\* C12: a Reset in which a nonce or balance lookup fails leaves the pool as
\* it was before the call.
C12_AbortedResetRestores ==
    \A bc \in {f \in ResetFacades : f.fail # {}} :
        \A r \in ResetOutcomes(accountActs, allActions, bc) :
            r.err # "nil" => r.accts = accountActs /\ r.all = allActions

\* C13: after an add has failed, an add of a valid action of the same sender
\* that a fresh pool admits (and that the pool admitted before the failure)
\* is admitted.
C13_NoPoisoning ==
    \A act \in Universe : \A bc \in ClaimFacades(act) : \A r \in AddResults(act, bc) :
        r.err # "nil" =>
            \A next \in {a \in Universe : a.sender = act.sender /\ a.flaws = {}} :
                \A bc2 \in {f \in ClaimFacades(next) : f.fail = {}} :
                    (/\ TypedAdd(NoQueues, {}, bc2, next).err = "nil"
                     /\ TypedAddResult(next, bc2).err = "nil")
                        => TypedAdd(r.accts, r.all, bc2, next).err = "nil"

\* C14: every add entry point rejects an action whose nonce is at most the
\* confirmed nonce of its sender, whether or not the sender has a queue.
C14_NonceFloor ==
    \A act \in Universe : act.nonce <= confirmedNonce[act.sender] =>
        \A bc \in ClaimFacades(act) : \A r \in AddResults(act, bc) :
            r.err # "nil" /\ Hash(act) \notin r.all

\* The start nonce of the queue an add of act meets: the sender's queue, or
\* the one enqueueAction creates.
StartFor(act) ==
    IF act.sender \in DOMAIN accountActs
    THEN QueueOf(act.sender).startNonce
    ELSE confirmedNonce[act.sender] + 1

AboveWindow(act) == act.nonce >= StartFor(act) + cfg.MaxNumActsPerAcct
InWindow(act) == StartFor(act) <= act.nonce /\ ~AboveWindow(act)

\* The errors enqueueAction returns before it compares the nonce with the window.
EarlyQueueErrs ==
    {"ErrChainState:enqueue nonce", "ErrChainState:enqueue balance", "ErrNonce:duplicate nonce"}

\* act passes everything that precedes the window test, under facade bc.
ReachesWindowTest(act, bc) ==
    /\ act.flaws = {} /\ bc.fail = {}
    /\ Hash(act) \notin allActions
    /\ Cardinality(allActions) < cfg.MaxNumActsPerPool
    /\ act.nonce > confirmedNonce[act.sender]
    /\ act.kind = "vote" => act.votee \in {EmptyAddress, act.sender} \cup bc.cands
    /\ ~(act.sender \in DOMAIN accountActs /\ HasNonce(QueueOf(act.sender), act.nonce))

\* C15 as claimed: an add at a nonce of start nonce + MaxNumActsPerAcct or
\* above is rejected with ErrNonce "too large" and not stored; an add at a
\* nonce inside the window is not rejected with that error.
C15_TooLargeRejected ==
    \A act \in Universe : \A bc \in ClaimFacades(act) : \A r \in AddResults(act, bc) :
        /\ AboveWindow(act) => r.err = "ErrNonce:too large" /\ Hash(act) \notin r.all
        /\ InWindow(act) => r.err # "ErrNonce:too large"

\* C15 as amended: such an add is rejected and not stored, with ErrNonce "too
\* large" once it has passed the checks made before the window test, and
\* otherwise with the error of the check that stopped it; inside the window
\* no add is rejected as too large.
C15_TooLargeUnlessStoppedEarlier ==
    \A act \in Universe : \A bc \in ClaimFacades(act) :
        /\ \A r \in AddResults(act, bc) :
              /\ AboveWindow(act) =>
                    /\ r.err \in PreQueueErrs \cup EarlyQueueErrs \cup {"ErrNonce:too large"}
                    /\ Hash(act) \notin r.all
              /\ InWindow(act) => r.err # "ErrNonce:too large"
        /\ AboveWindow(act) /\ ReachesWindowTest(act, bc)
              => /\ TypedAddResult(act, bc).err = "ErrNonce:too large"
                 /\ AddPool(accountActs, allActions, bc, TRUE, act).err = "ErrNonce:too large"

\* A sender's window is full from its start nonce on and an add beyond it
\* has been rejected as too large.
C15_Witness ==
    /\ last.op \in AddOps
    /\ last.err = "ErrNonce:too large"
    /\ \E s \in DOMAIN accountActs :
          /\ Cardinality(QueueOf(s).items) = cfg.MaxNumActsPerAcct
          /\ \A a \in QueueOf(s).items : InWindow(a)

\* The pending nonce of the queue an add of act meets.
PendingFor(act) ==
    IF act.sender \in DOMAIN accountActs
    THEN QueueOf(act.sender).pendingNonce
    ELSE confirmedNonce[act.sender] + 1

\* In pool r the sender of act has a queue that stores act.
StoredIn(r, act) == act.sender \in DOMAIN r.accts /\ act \in r.accts[act.sender].items

\* In pool r the pending nonce of the sender of act is past act and stands at
\* the first nonce that is not stored or not paid for.
AdvancedPast(r, act) ==
    /\ StoredIn(r, act)
    /\ LET q == r.accts[act.sender]
       IN  /\ q.pendingNonce > act.nonce
           /\ \A n \in act.nonce..(q.pendingNonce - 1) : HasNonce(q, n)
           /\ ~\E a \in q.items : a.nonce = q.pendingNonce /\ a.cost <= q.pendingBalance

\* C16: an add that succeeds at a nonce above the pending nonce stores the
\* action and leaves the pending nonce as it is; an add that succeeds at the
\* pending nonce moves the pending nonce past the action and past the stored
\* actions that follow it without a gap and can be paid for.
C16_PendingNonceAdvance ==
    \A act \in Universe : \A bc \in ClaimFacades(act) : \A r \in AddResults(act, bc) :
        r.err = "nil" =>
            /\ act.nonce > PendingFor(act) =>
                  StoredIn(r, act) /\ r.accts[act.sender].pendingNonce = PendingFor(act)
            /\ act.nonce = PendingFor(act) => AdvancedPast(r, act)

\* The pending balance of the queue an add of act meets, under facade bc.
PendingBalanceFor(act, bc) ==
    IF act.sender \in DOMAIN accountActs
    THEN QueueOf(act.sender).pendingBalance
    ELSE bc.balance[act.sender]

\* C17: a Transfer, Vote or Execution that is not in the pool and costs more
\* than the pending balance of its sender's queue is rejected and is not in
\* the pool after the add.
C17_UnpayableNotRetained ==
    \A act \in {a \in Universe : a.kind \in {"transfer", "vote", "execution"}} :
        \A bc \in ClaimFacades(act) :
            (Hash(act) \notin allActions /\ act.cost > PendingBalanceFor(act, bc)) =>
                \A r \in AddResults(act, bc) :
                    r.err # "nil" /\ Hash(act) \notin r.all /\ ~StoredIn(r, act)

\* With a balance that pays two of three transfers and a window and a pool
\* that have room for three, the third transfer has been rejected for its
\* cost and the pool holds the sender's nonces 1 and 2.
C17_Witness ==
    /\ last.op = "AddTsf"
    /\ last.err = "ErrBalance:insufficient"
    /\ cfg.MaxNumActsPerAcct >= 3 /\ cfg.MaxNumActsPerPool >= 3
    /\ DOMAIN accountActs = {"A"}
    /\ QueueOf("A").items = {Transfer("A", 1, 1), Transfer("A", 2, 1)}
    /\ QueueOf("A").givenBalance = 2
    /\ QueueOf("A").pendingBalance < Transfer("A", 3, 1).cost
    /\ Cardinality(allActions) = 2

\* The four lanes of a result of PickActs and the actions in them.
Lanes(p) == {p.transfers, p.votes, p.executions, p.actions}
Picked(p) == UNION {{lane[i] : i \in DOMAIN lane} : lane \in Lanes(p)}
NumPicked(p) == Len(p.transfers) + Len(p.votes) + Len(p.executions) + Len(p.actions)

\* The ready actions of the whole pool.
AllReady == UNION {ReadyActs(QueueOf(s)) : s \in DOMAIN accountActs}

\* C18: whatever the order of the queues, PickActs returns only actions of
\* ready prefixes; within a lane the actions of one sender are in strictly
\* ascending nonce order; and a sender's ready action below a picked one of
\* that sender is picked as well.
C18_PickOnlyReadyInOrder ==
    \A order \in Orders(DOMAIN accountActs) :
        LET p == PickActsPool(accountActs, order)
        IN  /\ Picked(p) \subseteq AllReady
            /\ \A lane \in Lanes(p) : \A i, j \in DOMAIN lane :
                  (i < j /\ lane[i].sender = lane[j].sender) => lane[i].nonce < lane[j].nonce
            /\ \A a \in Picked(p) : \A b \in ReadyActs(QueueOf(a.sender)) :
                  b.nonce < a.nonce => b \in Picked(p)

\* PickActs has returned actions while the pool stored an action behind a gap.
C18_Witness ==
    /\ last.op = "PickActs"
    /\ Picked(returned) # {}
    /\ \E s \in DOMAIN accountActs : \E a \in QueueOf(s).items :
          /\ a.nonce > QueueOf(s).pendingNonce
          /\ a \notin Picked(returned)

\* C19: with a positive MaxNumActsToPick PickActs returns min(MaxNumActsToPick,
\* number of ready actions) actions over its four lanes; with
\* MaxNumActsToPick = 0 it returns every ready action.
C19_PickCount ==
    \A order \in Orders(DOMAIN accountActs) :
        LET p == PickActsPool(accountActs, order)
            ready == Cardinality(AllReady)
        IN  IF cfg.MaxNumActsToPick > 0
            THEN NumPicked(p) = IF ready < cfg.MaxNumActsToPick THEN ready
                                ELSE cfg.MaxNumActsToPick
            ELSE NumPicked(p) = ready /\ Picked(p) = AllReady

\* PickActs has stopped at a positive limit below the number of ready actions.
C19_Witness ==
    /\ last.op = "PickActs"
    /\ cfg.MaxNumActsToPick > 0
    /\ Cardinality(AllReady) > cfg.MaxNumActsToPick
    /\ NumPicked(returned) = cfg.MaxNumActsToPick

\* C20: GetPendingNonce(addr) returns the pending nonce of addr's queue when
\* accountActs has one, whatever the facade does, and the confirmed nonce + 1
\* otherwise.
C20_GetPendingNonce ==
    \A addr \in Senders :
        \A bc \in {Facade(fail, NoBalance, {}, 1) : fail \in {{}, {<<addr, "Nonce">>}}} :
            LET r == GetPendingNoncePool(accountActs, bc, addr)
            IN  /\ addr \in DOMAIN accountActs
                      => r.nonce = QueueOf(addr).pendingNonce /\ r.err = "nil"
                /\ (addr \notin DOMAIN accountActs /\ ~NonceFails(bc, addr))
                      => r.nonce = confirmedNonce[addr] + 1 /\ r.err = "nil"

\* GetPendingNonce has answered for an address whose queue has a ready
\* prefix, so that its pending nonce is above the confirmed nonce + 1.
C20_Witness ==
    /\ last.op = "GetPendingNonce"
    /\ returned.addr \in DOMAIN accountActs
    /\ QueueOf(returned.addr).pendingNonce > confirmedNonce[returned.addr] + 1
    /\ returned.nonce = QueueOf(returned.addr).pendingNonce

\* The goroutines inside a writer-side and inside a reader-side operation.
InWriter(g) == calls[g].pc \in {"locked", "callback", "reentering", "called", "queued"}
InReader(g) == calls[g].pc = "rlocked"
StoredHashes == UNION {Hashes(accountActs[s].items) : s \in DOMAIN accountActs}

\* C21: while a goroutine is inside a writer-side operation (AddTsf, AddVote,
\* AddExecution, Add, Reset, PickActs, GetPendingNonce, GetUnconfirmedActs)
\* no other goroutine is inside any operation of the pool; whenever no
\* writer-side operation is running, the pool is the pool that running the
\* operations one at a time, in the order they took the lock, would have
\* produced; every answer equals the answer of that serial pool; and
\* a reader never finds a queued action missing from allActions.
C21_Serialized ==
    /\ \A g \in Goroutines : \A h \in Goroutines \ {g} :
          InWriter(g) => ~InWriter(h) /\ ~InReader(h)
    /\ (\A g \in Goroutines : ~InWriter(g))
          => accountActs = serial.accts /\ allActions = serial.all
    /\ (\E g \in Goroutines : InReader(g)) => StoredHashes \subseteq allActions
    /\ returned # <<>>
          => /\ returned.value = returned.serial
             /\ returned.queued => returned.value.found

\* A goroutine has written a queue and not yet allActions while the other
\* waits for the reader side of the lock.
C21_Witness ==
    \E g \in Goroutines : \E h \in Goroutines \ {g} :
        /\ calls[g].pc = "queued"
        /\ ~(StoredHashes \subseteq allActions)
        /\ calls[h].pc = "waiting"
        /\ calls[h].op \in ReaderOps

\* C22: the pool does not hold its lock while it is inside a call to an
\* ActionValidator or to the chain-state facade, so that a callee which
\* calls an operation of the pool is granted the lock: no goroutine is in
\* such a call, or waiting in it for the lock, while it is the writer.
C22_NoLockAcrossCallback ==
    \A g \in Goroutines :
        calls[g].pc \in {"callback", "reentering"} => mutex.writer # g

\* The fields the byte stream is to tell apart: all but the signature.
Unsigned(s) == [s EXCEPT !.signature = <<>>]

\* C23: two StartSubChain actions that differ in version, nonce, chain id,
\* a deposit, a height, the sender address or public key, the gas limit or
\* the gas price have different byte streams and different hashes.
C23_ByteStreamInjective ==
    \A other \in StartSubChains :
        Unsigned(other) # Unsigned(start)
            => /\ ByteStream(other) # ByteStream(start)
               /\ StartSubChainHash(other) # StartSubChainHash(start)

\* The stream as the layout describes it.
Layout(s) ==
    TypeTag \o PutUint(4, s.version) \o PutUint(8, s.nonce)
    \o PutUint(4, s.chainID)
    \o BytesIfSet(s.securityDeposit) \o BytesIfSet(s.operationDeposit)
    \o PutUint(8, s.startHeight) \o PutUint(8, s.parentHeightOffset)
    \o AddrBytes(s.srcAddr) \o s.srcPubkey \o PutUint(8, s.gasLimit)
    \o BytesIfSet(s.gasPrice)

\* C24: the byte stream is the type tag, untouched, then the version in 4
\* bytes, the nonce in 8 bytes, the variant fields, the sender address, the
\* public key, the gas limit in 8 bytes and the gas price.
C24_ByteStreamLayout ==
    LET stream == ByteStream(start)
    IN  /\ SubSeq(stream, 1, Len(TypeTag)) = TypeTag
        /\ SubSeq(stream, Len(TypeTag) + 1, Len(TypeTag) + 4) = PutUint(4, start.version)
        /\ stream = Layout(start)

\* C25: Proto followed by NewStartSubChainFromProto gives back an action
\* with the same fields, the sign of the deposits included, and the same
\* hash.
C25_ProtoRoundTrip ==
    LET back == NewStartSubChainFromProto(Proto(start))
    IN  /\ back = start
        /\ StartSubChainHash(back) = StartSubChainHash(start)
        /\ returned # <<>> /\ returned.op = "NewStartSubChainFromProto"
              => returned.value = start

\* The admission checks in the order the validation pipeline lists them.
CheckOrder ==
    <<"dedup", "precheck", "gas", "address", "signature", "nonce", "candidate", "capacity">>

\* Whether act, submitted to a pool holding the hashes all, violates check.
Fails(check, all, bc, act) ==
    CASE check = "dedup" -> Hash(act) \in all
      [] check = "precheck" ->
            \/ act.kind = "transfer" /\ "coinbase" \in act.flaws
            \/ "oversize" \in act.flaws
            \/ act.kind \in {"transfer", "execution"} /\ "negAmount" \in act.flaws
      [] check = "gas" -> act.flaws \cap {"gasHigh", "gasLow"} # {}
      [] check = "address" ->
            \/ "badSender" \in act.flaws
            \/ "badTarget" \in act.flaws /\ (act.kind = "vote" => act.votee # EmptyAddress)
      [] check = "signature" -> "badSig" \in act.flaws
      [] check = "nonce" -> act.nonce <= confirmedNonce[act.sender]
      [] check = "candidate" ->
            /\ act.kind = "vote"
            /\ act.votee # EmptyAddress
            /\ act.votee # act.sender
            /\ act.votee \notin bc.cands
      [] check = "capacity" -> Cardinality(all) >= cfg.MaxNumActsPerPool

\* The generic Add applies the duplicate and the capacity check only.
Applies(op, check) == op # "Add" \/ check \in {"dedup", "capacity"}

FirstFailing(op, all, bc, act) ==
    LET failing == {i \in DOMAIN CheckOrder :
                       Applies(op, CheckOrder[i]) /\ Fails(CheckOrder[i], all, bc, act)}
    IN  IF failing = {} THEN "none"
        ELSE CheckOrder[CHOOSE i \in failing : \A j \in failing : i <= j]

\* The check an error comes from.
CheckOf(err) ==
    CASE err = "ErrDuplicate" -> "dedup"
      [] err \in {"ErrTransfer:coinbase", "ErrActPool:oversized data",
                  "ErrBalance:negative value"} -> "precheck"
      [] err \in {"ErrGasHigherThanLimit", "ErrInsufficientGas"} -> "gas"
      [] err \in {"ErrAddress:sender", "ErrAddress:target"} -> "address"
      [] err = "ErrSignature" -> "signature"
      [] err = "ErrNonce:too low" -> "nonce"
      [] err = "ErrVotee" -> "candidate"
      [] err = "ErrActPool:insufficient space" -> "capacity"
      [] OTHER -> "none"

\* Actions that violate more than one check, besides the offered ones.
OrderActs ==
    Offered(setup.offered)
    \cup {MkAct("transfer", "A", 1, 1, EmptyAddress, {"negAmount", "gasHigh"}),
          MkAct("transfer", "A", 1, 1, EmptyAddress, {"coinbase", "badSig"}),
          MkAct("vote", "A", 1, 1, "B", {"badSig", "oversize"}),
          MkAct("execution", "A", 1, 1, EmptyAddress, {"badSender", "gasLow"})}

\* C26: an action that violates one or more admission checks is rejected
\* with the error of the earliest of them in the order dedup, variant
\* prechecks, gas, addresses, signature, nonce floor, candidate, capacity.
C26_EarliestCheckReported ==
    \A act \in OrderActs : \A op \in {o \in AddOps : Takes(o, act)} :
    \A cands \in SUBSET Senders :
        LET bc == Facade({}, NoBalance, cands, 1)
            r == Admit(op, accountActs, allActions, bc, TRUE, act)
            first == FirstFailing(op, allActions, bc, act)
        IN  first # "none" => CheckOf(r.err) = first

\* The stored actions of a sender at or above its pending nonce.
Gapped(s) == {a \in QueueOf(s).items : a.nonce >= QueueOf(s).pendingNonce}

\* With act added, what the pending balance of the queue of s has to pay for
\* up to the nonce of g is within it.
StaysFeasible(s, act, g) ==
    LET q == QueueOf(s)
        due == {a \in q.items \cup {act} : a.nonce >= q.pendingNonce /\ a.nonce <= g.nonce}
    IN  SumCost(due) <= q.pendingBalance

\* C27: a stored action at or above the pending nonce stays stored when an
\* action of the same sender with a lower nonce is admitted and its cost
\* stays feasible, and it is in the ready prefix once every nonce from the
\* pending nonce up to its own is stored.
C27_GappedStays ==
    \A s \in DOMAIN accountActs : \A g \in Gapped(s) :
    \A act \in {a \in Offered(setup.offered) : a.sender = s /\ a.nonce < g.nonce} :
    \A bc \in ClaimFacades(act) :
        LET r == TypedAddResult(act, bc)
        IN  r.err = "nil" /\ StaysFeasible(s, act, g) =>
               /\ StoredIn(r, g)
               /\ (\A n \in QueueOf(s).pendingNonce..g.nonce : HasNonce(r.accts[s], n))
                     => r.accts[s].pendingNonce > g.nonce

\* C28: a step other than a Reset leaves a queue that holds ready actions
\* in place, and for every queue that is there before and after it the
\* pending nonce does not decrease, the start nonce does not change, the
\* pending balance does not increase and the ready actions stay ready.
C28_ReadyPrefixGrows ==
    [][last'.op # "Reset" =>
          \A s \in DOMAIN accountActs :
              /\ ReadyActs(accountActs[s]) # {} => s \in DOMAIN accountActs'
              /\ s \in DOMAIN accountActs' =>
                    /\ accountActs'[s].pendingNonce >= accountActs[s].pendingNonce
                    /\ accountActs'[s].startNonce = accountActs[s].startNonce
                    /\ accountActs'[s].pendingBalance <= accountActs[s].pendingBalance
                    /\ ReadyActs(accountActs[s]) \subseteq ReadyActs(accountActs'[s])]_vars

\* An admission has just extended a ready prefix to two actions.
C28_Witness ==
    /\ last.op = "Add"
    /\ last.err = "nil"
    /\ \E s \in DOMAIN accountActs :
          /\ Cardinality(ReadyActs(QueueOf(s))) >= 2
          /\ QueueOf(s).pendingBalance < QueueOf(s).givenBalance

\* C29: for an address none of whose actions is stored in the pool,
\* GetPendingNonce returns the confirmed nonce the chain reports now, plus
\* one, and no error.
C29_PendingNonceWithoutActions ==
    \A addr \in Senders :
        (addr \in DOMAIN accountActs => Empty(QueueOf(addr))) =>
            LET r == GetPendingNoncePool(accountActs, Facade({}, NoBalance, {}, 1), addr)
            IN  r.nonce = confirmedNonce[addr] + 1 /\ r.err = "nil"

\* C30: when HandleAction returns nil for an incoming action of any variant,
\* the hash of the action is in the pool.
C30_NilMeansAdmitted ==
    \A act \in Universe : \A bc \in ClaimFacades(act) :
        LET r == HandleActionPool(accountActs, allActions, bc, act)
        IN  r.err = "nil" => Hash(act) \in r.all

====
